---- MODULE Spec2Model ----
(***************************************************************************)
(* TicToc transaction layer of SplinterDB                                  *)
(* (src/transaction_impl/transaction_fantasticc_nolock.h).                 *)
(*                                                                         *)
(* Threads run transactions against a shared key-value store (kvs) and a   *)
(* shared timestamp cache (tscache).  Every access of a thread to shared   *)
(* memory (a load or a compare-and-swap of a timestamp word, a call of the *)
(* cache, a call of the store) is one step; the thread-local code between  *)
(* two such accesses belongs to the step that follows it.                  *)
(*                                                                         *)
(* Timestamps are unbounded naturals here; the runs stay far below 2^48,   *)
(* the width of the wts field.                                             *)
(***************************************************************************)
EXTENDS Integers, Sequences, FiniteSets, TLC

\* ------------------------------------------------------------------ bounds
MaxTxns == 2
MaxOps == 3
AgedWts == 40000

Threads == {1, 2}
KeyIds == {1, 2}

\* ------------------------------------------------------------------ keys
\* A key is a byte string of at most KEY_SIZE bytes.  Key i of full length is
\* [id |-> i, full |-> TRUE] (the bytes i,0,...,0); [id |-> i, full |-> FALSE]
\* is the one-byte key i, a proper prefix of it.
FullKey(i) == [id |-> i, full |-> TRUE]
ShortKey(i) == [id |-> i, full |-> FALSE]
UserKeys == {FullKey(i) : i \in KeyIds} \cup {ShortKey(1)}

\* data_key_compare with the default data config: bytewise lexicographic
\* order, a proper prefix sorting first.
data_key_compare(a, b) ==
    IF a.id < b.id THEN -1
    ELSE IF a.id > b.id THEN 1
    ELSE IF a.full = b.full THEN 0
    ELSE IF b.full THEN -1 ELSE 1

\* rw_entry_set_key: the key is copied into a zeroed buffer of KEY_SIZE bytes
\* and the entry's key is the whole buffer.
rw_entry_set_key(ukey) == FullKey(ukey.id)

\* ------------------------------------------------------------------ messages
InsertVals == {1}
UpdateDeltas == {1}
NotFound == -1

NullMsg == [class |-> "INVALID", data |-> 0]
InsertMsg(v) == [class |-> "INSERT", data |-> v]
UpdateMsg(d) == [class |-> "UPDATE", data |-> d]
DeleteMsg == [class |-> "DELETE", data |-> 0]

message_is_null(m) == m.class = "INVALID"
message_is_definitive(m) == m.class \in {"INSERT", "DELETE"}

\* data_merge_tuples of the data config: an update adds its delta to the
\* older message and keeps the older message's class.
data_merge_tuples(old, new) == [class |-> old.class, data |-> old.data + new.data]

\* The store's own handling of one message for a key.
KvsApply(store, key, m) ==
    IF m.class = "INSERT" THEN [store EXCEPT ![key] = m.data]
    ELSE IF m.class = "UPDATE"
        THEN [store EXCEPT ![key] = IF @ = NotFound THEN m.data ELSE @ + m.data]
    ELSE IF m.class = "DELETE" THEN [store EXCEPT ![key] = NotFound]
    ELSE store

\* ------------------------------------------------------------------ timestamp word
DeltaMask == 32767

ZeroTs == [wts |-> 0, delta |-> 0, lock_bit |-> 0]

timestamp_set_get_rts(ts) == ts.wts + ts.delta

timestamp_set_is_equal(s1, s2) == s1 = s2

Max(a, b) == IF a >= b THEN a ELSE b

\* An extension that leaves wts alone and puts the whole distance in delta.
ExtendTsNoShift(v1, commit_ts) == [v1 EXCEPT !.delta = commit_ts - v1.wts]

\* commit's rts extension: the word proposed for a snapshot v1 and commit_ts.
ExtendTs(v1, commit_ts) ==
    LET delta == commit_ts - v1.wts
        shift == delta - (delta % (DeltaMask + 1))
    IN  [v1 EXCEPT !.wts = v1.wts + shift, !.delta = delta - shift]

\* ------------------------------------------------------------------ timestamp cache
\* A slot also records whose key buffer the cache uses as its key (the entry
\* <<thread, index>> that saw is_new, or Orphan once that entry's transaction
\* has returned) and, for an orphan, how often the buffer has been freed.
Orphan == <<0, 0>>
NoSlot == [present |-> FALSE]
Slot(ts, rc) ==
    [present |-> TRUE, ts |-> ts, refcount |-> rc, key |-> Orphan, key_frees |-> 0]

\* iceberg_insert_and_get: a fresh slot with a zero word and refcount 1, or one
\* more reference to the slot there is.  The keep-all-keys build inserts
\* without counting references.
IcebergInsert(cache, kid, keep) ==
    IF cache[kid].present
        THEN IF keep THEN cache
             ELSE [cache EXCEPT ![kid].refcount = @ + 1]
        ELSE [cache EXCEPT ![kid] = Slot(ZeroTs, IF keep THEN 0 ELSE 1)]

\* iceberg_get_and_remove: drop one reference; the slot goes with the last.
IcebergRemove(cache, kid) ==
    IF cache[kid].refcount <= 1
        THEN [cache EXCEPT ![kid] = NoSlot]
        ELSE [cache EXCEPT ![kid].refcount = @ - 1]

\* ------------------------------------------------------------------ RW entries
NewEntry(ukey) ==
    [key |-> rw_entry_set_key(ukey), msg |-> NullMsg, wts |-> 0, rts |-> 0,
     tuple_ts |-> FALSE, is_read |-> FALSE, need_to_keep_key |-> FALSE,
     key_frees |-> 0]

rw_entry_is_read(e) == e.is_read
rw_entry_is_write(e) == ~message_is_null(e.msg)

\* The index of the first entry whose key compares equal to ukey, 0 if none.
FindEntry(entries, ukey) ==
    LET hits == {i \in 1..Len(entries) : data_key_compare(ukey, entries[i].key) = 0}
    IN  IF hits = {} THEN 0 ELSE CHOOSE i \in hits : \A j \in hits : i <= j

\* rw_entry_get: the entries after the call; the entry of ukey is EntryIndex.
rw_entry_get(entries, ukey, is_read) ==
    LET i == FindEntry(entries, ukey)
        es == IF i = 0 THEN Append(entries, NewEntry(ukey)) ELSE entries
        j == IF i = 0 THEN Len(es) ELSE i
    IN  [es EXCEPT ![j].is_read = @ \/ is_read]

EntryIndex(entries, ukey) ==
    LET i == FindEntry(entries, ukey)
    IN  IF i = 0 THEN Len(entries) + 1 ELSE i

\* local_write, lines 554-573: the pending message after msg is recorded.
MergeMsg(old, msg) ==
    IF message_is_null(old) THEN msg
    ELSE IF message_is_definitive(msg) THEN msg
    ELSE data_merge_tuples(old, msg)

\* rw_entry_key_compare, as the order of two entries.
rw_entry_key_compare(e1, e2) == data_key_compare(e1.key, e2.key)

\* A commit that leaves the write set in the order the writes were issued.
RECURSIVE InsertSorted(_, _, _)
RECURSIVE SortWriteSet(_, _)
SortWriteSetIssueOrder(entries, ws) == ws

\* platform_sort_slow on the write set: insertion sort of entry indices.
InsertSorted(entries, sorted, x) ==
    IF sorted = <<>> THEN <<x>>
    ELSE IF rw_entry_key_compare(entries[x], entries[Head(sorted)]) < 0
        THEN <<x>> \o sorted
        ELSE <<Head(sorted)>> \o InsertSorted(entries, Tail(sorted), x)

SortWriteSet(entries, ws) ==
    IF ws = <<>> THEN <<>>
    ELSE InsertSorted(entries, SortWriteSet(entries, SubSeq(ws, 1, Len(ws) - 1)),
                      ws[Len(ws)])

\* commit, lines 393-408: the indices of the write entries and of the read
\* entries in entry order, and the largest wts of a read entry.
RECURSIVE SelectIdx(_, _, _)
SelectIdx(entries, i, write) ==
    IF i > Len(entries) THEN <<>>
    ELSE (IF (IF write THEN rw_entry_is_write(entries[i])
                       ELSE rw_entry_is_read(entries[i]))
            THEN <<i>> ELSE <<>>) \o SelectIdx(entries, i + 1, write)

RECURSIVE MaxReadWts(_, _)
MaxReadWts(entries, i) ==
    IF i > Len(entries) THEN 0
    ELSE Max(IF rw_entry_is_read(entries[i]) THEN entries[i].wts ELSE 0,
             MaxReadWts(entries, i + 1))

\* The next read entry at or after position i (0-based count of entries done)
\* that commit has to validate: the first with rts < commit_ts.
RECURSIVE SkipValidated(_, _, _, _)
SkipValidated(entries, rs, i, cts) ==
    IF i >= Len(rs) THEN Len(rs)
    ELSE IF entries[rs[i + 1]].rts < cts THEN i
    ELSE SkipValidated(entries, rs, i + 1, cts)

\* ------------------------------------------------------------------ state
VARIABLES
    keepAll,     \* the build: EXPERIMENTAL_MODE_KEEP_ALL_KEYS
    tscache,     \* the timestamp cache: key id -> slot
    kvs,         \* the key-value store: key -> value or NotFound
    kvs0,        \* history: the store as it was in the initial state
    pc,          \* where each thread is
    txn,         \* each thread's transaction: its rw_entries, in order
    loc,         \* each thread's locals of the running call
    nTxns,       \* transactions begun so far
    nOps,        \* calls of insert, update, delete and lookup so far
    log,         \* history: the calls of each thread's transaction, with results
    committed,   \* history: the transactions whose commit returned 0
    dispatched,  \* history: the store calls of each thread's running commit
    casLog,      \* history: the timestamps each thread's running commit has changed
    writeHist    \* history: per key, the applied writes: commit timestamp and value left

vars == <<keepAll, tscache, kvs, kvs0, pc, txn, loc, nTxns, nOps, log, committed,
          dispatched, casLog, writeHist>>

NoOp == [kind |-> "none", key |-> FullKey(1), val |-> 0]

NoLoc ==
    [op |-> NoOp, e |-> 0, v1 |-> ZeroTs, res |-> NotFound, commit_ts |-> 0,
     read_set |-> <<>>, write_set |-> <<>>, lock_num |-> 0, i |-> 0,
     is_abort |-> FALSE, call |-> "none", own |-> FALSE]

\* The calls the threads choose from: lookups and inserts of every key, an
\* update and a delete of the first key.
Ops ==
    {[kind |-> "lookup", key |-> k, val |-> 0] : k \in UserKeys}
    \cup {[kind |-> "insert", key |-> k, val |-> v] : k \in UserKeys, v \in InsertVals}
    \cup {[kind |-> "update", key |-> FullKey(1), val |-> d] : d \in UpdateDeltas}
    \cup {[kind |-> "delete", key |-> FullKey(1), val |-> 0]}

OpMsg(op) ==
    IF op.kind = "insert" THEN InsertMsg(op.val)
    ELSE IF op.kind = "update" THEN UpdateMsg(op.val)
    ELSE DeleteMsg

\* The state after transactional_splinterdb_create, in either build.
InitFresh ==
    /\ keepAll \in BOOLEAN
    /\ tscache = [k \in KeyIds |-> NoSlot]
    /\ kvs = [k \in UserKeys |-> NotFound]

\* A state of the keep-all-keys build after AgedWts transactions that each
\* inserted the first key and committed: its slot stays in the cache.
InitAged ==
    /\ keepAll = TRUE
    /\ tscache = [k \in KeyIds |->
                    IF k = 1 THEN Slot([ZeroTs EXCEPT !.wts = AgedWts], 0) ELSE NoSlot]
    /\ kvs = [k \in UserKeys |-> IF k = FullKey(1) THEN 1 ELSE NotFound]

Init ==
    /\ InitFresh \/ InitAged
    /\ kvs0 = kvs
    /\ pc = [t \in Threads |-> "none"]
    /\ txn = [t \in Threads |-> <<>>]
    /\ loc = [t \in Threads |-> NoLoc]
    /\ nTxns = 0
    /\ nOps = 0
    /\ log = [t \in Threads |-> <<>>]
    /\ committed = <<>>
    /\ dispatched = [t \in Threads |-> <<>>]
    /\ casLog = [t \in Threads |-> {}]
    /\ writeHist = [k \in UserKeys |-> <<>>]

\* A call in a transaction's history: its result, whether a lookup was served
\* from the transaction's own pending message, and how many writes had been
\* applied to each key of the store when the call returned.
LogEntry(op, res, own) ==
    [op |-> op, res |-> res, own |-> own,
     seen |-> [k \in UserKeys |-> Len(writeHist[k])]]

\* What a committed transaction leaves in the history: its calls and results.
CommittedLog(lg) == [j \in 1..Len(lg) |-> [op |-> lg[j].op, res |-> lg[j].res]]

\* The timestamp word an entry's tuple_ts points at.
Word(kid) == tscache[kid].ts

\* timestamp_set_compare_and_swap on the word of key kid.
CasOk(kid, v1) == Word(kid) = v1
CasCache(kid, v1, v2) ==
    IF CasOk(kid, v1) THEN [tscache EXCEPT ![kid].ts = v2] ELSE tscache

\* An rw_entry_iceberg_insert without the guard on entry->tuple_ts: every call
\* takes a reference.
InstallCacheEveryCall(entries, e, cache, keep) ==
    IcebergInsert(cache, entries[e].key.id, keep)

\* An rw_entry_iceberg_insert that zeroes the word of the slot it finds.
InstallCacheReset(entries, e, cache, keep) ==
    IF entries[e].tuple_ts THEN cache
    ELSE [IcebergInsert(cache, entries[e].key.id, keep)
            EXCEPT ![entries[e].key.id].ts = ZeroTs]

\* rw_entry_iceberg_insert: the entries and the cache after the call.
InstallEntries(entries, e, cache) ==
    IF entries[e].tuple_ts THEN entries
    ELSE [entries EXCEPT ![e].tuple_ts = TRUE,
                         ![e].need_to_keep_key = @ \/ ~cache[entries[e].key.id].present]
InstallCache(entries, e, cache, keep) ==
    IF entries[e].tuple_ts THEN cache
    ELSE IcebergInsert(cache, entries[e].key.id, keep)

\* lines 83 and 98: a slot made by the call has the caller's key buffer as its key.
AdoptKey(cache, old, kid, owner) ==
    IF cache[kid].present /\ ~old[kid].present
        THEN [cache EXCEPT ![kid].key = owner] ELSE cache

\* ------------------------------------------------------------------ begin
\* transactional_splinterdb_begin
Begin(t) ==
    /\ pc[t] = "none"
    /\ nTxns < MaxTxns
    /\ nTxns' = nTxns + 1
    /\ pc' = [pc EXCEPT ![t] = "idle"]
    /\ txn' = [txn EXCEPT ![t] = <<>>]
    /\ UNCHANGED <<keepAll, kvs0, tscache, kvs, loc, nOps, log, committed, dispatched,
                   casLog, writeHist>>

\* ------------------------------------------------------------------ writes
\* local_write up to its first access of shared memory: rw_entry_get, and for
\* an update or a delete rw_entry_iceberg_insert.  An insert is complete here.
LocalWrite(t, op) ==
    LET es == rw_entry_get(txn[t], op.key, FALSE)
        e == EntryIndex(txn[t], op.key)
        msg == OpMsg(op)
    IN  /\ pc[t] = "idle"
        /\ nOps < MaxOps
        /\ nOps' = nOps + 1
        /\ op.kind \in {"insert", "update", "delete"}
        \* platform_assert at line 564 stops an update of a pending delete
        /\ ~(op.kind = "update" /\ es[e].msg.class = "DELETE")
        /\ IF op.kind = "insert"
            THEN /\ txn' = [txn EXCEPT ![t] = [es EXCEPT ![e].msg = MergeMsg(@, msg)]]
                 /\ log' = [log EXCEPT ![t] = Append(@, LogEntry(op, 0, FALSE))]
                 /\ UNCHANGED <<tscache, pc, loc>>
            ELSE /\ txn' = [txn EXCEPT ![t] = InstallEntries(es, e, tscache)]
                 /\ tscache' = AdoptKey(InstallCache(es, e, tscache, keepAll),
                                        tscache, op.key.id, <<t, e>>)
                 /\ pc' = [pc EXCEPT ![t] = "w_sample"]
                 /\ loc' = [loc EXCEPT ![t] = [NoLoc EXCEPT !.op = op, !.e = e]]
                 /\ UNCHANGED log
        /\ UNCHANGED <<keepAll, kvs0, kvs, nTxns, committed, dispatched, casLog,
                       writeHist>>

\* local_write, lines 549-573: sample the word into the entry, record the message.
WriteSample(t) ==
    LET e == loc[t].e
        v == Word(txn[t][e].key.id)
    IN  /\ pc[t] = "w_sample"
        /\ txn' = [txn EXCEPT ![t][e].wts = v.wts,
                              ![t][e].rts = timestamp_set_get_rts(v),
                              ![t][e].msg = MergeMsg(@, OpMsg(loc[t].op))]
        /\ log' = [log EXCEPT ![t] = Append(@, LogEntry(loc[t].op, 0, FALSE))]
        /\ pc' = [pc EXCEPT ![t] = "idle"]
        /\ loc' = [loc EXCEPT ![t] = NoLoc]
        /\ UNCHANGED <<keepAll, kvs0, tscache, kvs, nTxns, nOps, committed, dispatched,
                       casLog, writeHist>>

\* ------------------------------------------------------------------ lookup
\* transactional_splinterdb_lookup, lines 611-616
LookupStart(t, op) ==
    LET es == rw_entry_get(txn[t], op.key, TRUE)
        e == EntryIndex(txn[t], op.key)
    IN  /\ pc[t] = "idle"
        /\ nOps < MaxOps
        /\ nOps' = nOps + 1
        /\ op.kind = "lookup"
        /\ txn' = [txn EXCEPT ![t] = InstallEntries(es, e, tscache)]
        /\ tscache' = AdoptKey(InstallCache(es, e, tscache, keepAll),
                               tscache, op.key.id, <<t, e>>)
        /\ pc' = [pc EXCEPT ![t] = "lk_v1"]
        /\ loc' = [loc EXCEPT ![t] = [NoLoc EXCEPT !.op = op, !.e = e]]
        /\ UNCHANGED <<keepAll, kvs0, kvs, nTxns, log, committed, dispatched,
                       casLog, writeHist>>

\* line 620: v1 = *entry->tuple_ts
LookupV1(t) ==
    /\ pc[t] = "lk_v1"
    /\ loc' = [loc EXCEPT ![t].v1 = Word(txn[t][loc[t].e].key.id)]
    /\ pc' = [pc EXCEPT ![t] = "lk_read"]
    /\ UNCHANGED <<keepAll, kvs0, tscache, kvs, txn, nTxns, nOps, log, committed,
                   dispatched, casLog, writeHist>>

\* lines 625-639: the value comes from the entry's pending message, or from
\* splinterdb_lookup under the caller's key.
LookupRead(t) ==
    LET entry == txn[t][loc[t].e] IN
    /\ pc[t] = "lk_read"
    /\ loc' = [loc EXCEPT ![t].res =
                 IF rw_entry_is_write(entry) THEN entry.msg.data
                 ELSE kvs[loc[t].op.key],
                          ![t].own = rw_entry_is_write(entry)]
    /\ pc' = [pc EXCEPT ![t] = "lk_v2"]
    /\ UNCHANGED <<keepAll, kvs0, tscache, kvs, txn, nTxns, nOps, log, committed,
                   dispatched, casLog, writeHist>>

\* lines 642-648: v2 = *entry->tuple_ts; retry unless v1 = v2 and v1 is unlocked.
LookupV2(t) ==
    LET e == loc[t].e
        v1 == loc[t].v1
        v2 == Word(txn[t][e].key.id)
    IN  /\ pc[t] = "lk_v2"
        /\ IF ~timestamp_set_is_equal(v1, v2) \/ v1.lock_bit = 1
            THEN /\ pc' = [pc EXCEPT ![t] = "lk_v1"]
                 /\ loc' = [loc EXCEPT ![t].v1 = ZeroTs, ![t].res = NotFound,
                                       ![t].own = FALSE]
                 /\ UNCHANGED <<txn, log>>
            ELSE /\ txn' = [txn EXCEPT ![t][e].wts = v1.wts,
                                       ![t][e].rts = timestamp_set_get_rts(v1)]
                 /\ log' = [log EXCEPT ![t] =
                              Append(@, LogEntry(loc[t].op, loc[t].res, loc[t].own))]
                 /\ pc' = [pc EXCEPT ![t] = "idle"]
                 /\ loc' = [loc EXCEPT ![t] = NoLoc]
        /\ UNCHANGED <<keepAll, kvs0, tscache, kvs, nTxns, nOps, committed, dispatched,
                       casLog, writeHist>>

\* ------------------------------------------------------------------ commit
\* A commit that applies its writes whether or not validation aborted.
PcAfterValApplies(abort, i, nr, nw, ne) ==
    IF ~abort /\ i < nr THEN "val_load"
    ELSE IF nw > 0 THEN "apply"
    ELSE IF ne > 0 THEN "deinit" ELSE "ret"

\* Where commit goes once read validation has stopped at position i.
PcAfterVal(abort, i, nr, nw, ne) ==
    IF ~abort /\ i < nr THEN "val_load"
    ELSE IF nw > 0 THEN (IF abort THEN "ab_load" ELSE "apply")
    ELSE IF ne > 0 THEN "deinit" ELSE "ret"

IAfterVal(abort, i, nr) == IF ~abort /\ i < nr THEN i ELSE 0

\* The key id of the i-th entry of the write set, and of the read set.
WKid(t, i) == txn[t][loc[t].write_set[i]].key.id
RKid(t, i) == txn[t][loc[t].read_set[i]].key.id

\* transactional_splinterdb_commit, lines 386-415: split the entries into the
\* read set and the write set, take the largest wts read, sort the write set.
CommitStart(t) ==
    LET ws == SortWriteSet(txn[t], SelectIdx(txn[t], 1, TRUE))
        rs == SelectIdx(txn[t], 1, FALSE)
        cts == MaxReadWts(txn[t], 1)
        i == SkipValidated(txn[t], rs, 0, cts)
    IN  /\ pc[t] = "idle"
        /\ loc' = [loc EXCEPT ![t] =
                     [NoLoc EXCEPT !.call = "commit", !.write_set = ws,
                                   !.read_set = rs, !.commit_ts = cts,
                                   !.i = IF Len(ws) > 0 THEN 0
                                         ELSE IAfterVal(FALSE, i, Len(rs))]]
        /\ pc' = [pc EXCEPT ![t] =
                    IF Len(ws) > 0 THEN "lock"
                    ELSE PcAfterVal(FALSE, i, Len(rs), 0, Len(txn[t]))]
        /\ UNCHANGED <<keepAll, kvs0, tscache, kvs, txn, nTxns, nOps, log, committed,
                       dispatched, casLog, writeHist>>

\* A no-wait path that restarts without unlocking what the attempt locked.
BackOffKeepLocks(t) ==
    /\ pc' = [pc EXCEPT ![t] = "lock"]
    /\ loc' = [loc EXCEPT ![t].v1 = ZeroTs, ![t].lock_num = 0, ![t].i = 0]

\* The no-wait path, lines 426-434: with nothing locked in this attempt the
\* thread sleeps and starts over, otherwise it first unlocks what it locked.
BackOff(t) ==
    IF loc[t].lock_num = 0
        THEN /\ pc' = [pc EXCEPT ![t] = "lock"]
             /\ loc' = [loc EXCEPT ![t].v1 = ZeroTs]
        ELSE /\ pc' = [pc EXCEPT ![t] = "bo_load"]
             /\ loc' = [loc EXCEPT ![t].v1 = ZeroTs, ![t].i = 0]

\* A try_lock whose new word also forgets delta.
LockedWordDropDelta(v1) == [v1 EXCEPT !.lock_bit = 1, !.delta = 0]

\* rw_entry_try_lock, line 253: the word the compare-and-swap installs
LockedWord(v1) == [v1 EXCEPT !.lock_bit = 1]

\* An unlock that writes the word back as it found it.
UnlockedWordStill(v1) == v1

\* rw_entry_unlock, line 263: the word the compare-and-swap installs
UnlockedWord(v1) == [v1 EXCEPT !.lock_bit = 0]

\* A try_lock that does not look at the lock bit it loaded.
TryLockLoadBlind(v1) == TRUE

\* rw_entry_try_lock, line 249-252: the load of the word, the test of its lock bit
TryLockLoad(v1) == v1.lock_bit = 0

\* lines 419-425: install the slot of the next write, or load its word for
\* rw_entry_try_lock.
LockLoad(t) ==
    LET e == loc[t].write_set[loc[t].lock_num + 1]
        kid == txn[t][e].key.id
    IN  /\ pc[t] = "lock"
        /\ IF ~txn[t][e].tuple_ts
            THEN /\ txn' = [txn EXCEPT ![t] = InstallEntries(@, e, tscache)]
                 /\ tscache' = AdoptKey(InstallCache(txn[t], e, tscache, keepAll),
                                        tscache, kid, <<t, e>>)
                 /\ UNCHANGED <<pc, loc>>
            ELSE /\ IF TryLockLoad(Word(kid))
                     THEN /\ pc' = [pc EXCEPT ![t] = "lock_cas"]
                          /\ loc' = [loc EXCEPT ![t].v1 = Word(kid)]
                     ELSE BackOff(t)
                 /\ UNCHANGED <<txn, tscache>>
        /\ UNCHANGED <<keepAll, kvs0, kvs, nTxns, nOps, log, committed, dispatched,
                       casLog, writeHist>>

\* rw_entry_try_lock, lines 253-254: the compare-and-swap that sets the lock bit
LockCas(t) ==
    LET kid == WKid(t, loc[t].lock_num + 1)
        v1 == loc[t].v1
        v2 == LockedWord(v1)
    IN  /\ pc[t] = "lock_cas"
        /\ tscache' = CasCache(kid, v1, v2)
        /\ IF CasOk(kid, v1)
            THEN /\ loc' = [loc EXCEPT ![t].lock_num = @ + 1, ![t].v1 = ZeroTs]
                 /\ pc' = [pc EXCEPT ![t] =
                             IF loc[t].lock_num + 1 = Len(loc[t].write_set)
                             THEN "raise" ELSE "lock"]
                 /\ UNCHANGED casLog
            ELSE /\ BackOff(t)
                 /\ UNCHANGED casLog
        /\ UNCHANGED <<keepAll, kvs0, kvs, txn, nTxns, nOps, log, committed, dispatched,
                       writeHist>>

\* rw_entry_unlock, line 262, in the no-wait path
BackOffLoad(t) ==
    /\ pc[t] = "bo_load"
    /\ loc' = [loc EXCEPT ![t].v1 = Word(WKid(t, loc[t].i + 1))]
    /\ pc' = [pc EXCEPT ![t] = "bo_cas"]
    /\ UNCHANGED <<keepAll, kvs0, tscache, kvs, txn, nTxns, nOps, log, committed,
                   dispatched, casLog, writeHist>>

\* rw_entry_unlock, lines 263-264, in the no-wait path; after the last unlock
\* the thread sleeps and goes back to RETRY_LOCK_WRITE_SET.
BackOffCas(t) ==
    LET kid == WKid(t, loc[t].i + 1)
        v1 == loc[t].v1
        v2 == UnlockedWord(v1)
    IN  /\ pc[t] = "bo_cas"
        /\ tscache' = CasCache(kid, v1, v2)
        /\ IF CasOk(kid, v1)
            THEN /\ IF loc[t].i + 1 = loc[t].lock_num
                     THEN /\ pc' = [pc EXCEPT ![t] = "lock"]
                          /\ loc' = [loc EXCEPT ![t].i = 0, ![t].lock_num = 0,
                                                ![t].v1 = ZeroTs]
                     ELSE /\ pc' = [pc EXCEPT ![t] = "bo_load"]
                          /\ loc' = [loc EXCEPT ![t].i = @ + 1, ![t].v1 = ZeroTs]
                 /\ UNCHANGED casLog
            ELSE /\ pc' = [pc EXCEPT ![t] = "bo_load"]
                 /\ loc' = [loc EXCEPT ![t].v1 = ZeroTs]
                 /\ UNCHANGED casLog
        /\ UNCHANGED <<keepAll, kvs0, kvs, txn, nTxns, nOps, log, committed, dispatched,
                       writeHist>>

\* A commit that raises commit_ts to the rts of its writes, not beyond it.
RECURSIVE RaiseTsToRts(_, _, _, _, _)
RaiseTsToRts(cache, entries, ws, i, cts) ==
    IF i > Len(ws) THEN cts
    ELSE RaiseTsToRts(cache, entries, ws, i + 1,
                      Max(cts, timestamp_set_get_rts(cache[entries[ws[i]].key.id].ts)))

\* lines 439-442: commit_ts = MAX(commit_ts, rts of the write's word + 1)
RECURSIVE RaiseTs(_, _, _, _, _)
RaiseTs(cache, entries, ws, i, cts) ==
    IF i > Len(ws) THEN cts
    ELSE RaiseTs(cache, entries, ws, i + 1,
                 Max(cts, timestamp_set_get_rts(cache[entries[ws[i]].key.id].ts) + 1))

\* The words of the write set are locked by this thread and read in one step.
RaiseCommitTs(t) ==
    LET cts == RaiseTs(tscache, txn[t], loc[t].write_set, 1, loc[t].commit_ts)
        rs == loc[t].read_set
        i == SkipValidated(txn[t], rs, 0, cts)
    IN  /\ pc[t] = "raise"
        /\ loc' = [loc EXCEPT ![t].commit_ts = cts,
                              ![t].i = IAfterVal(FALSE, i, Len(rs))]
        /\ pc' = [pc EXCEPT ![t] =
                    PcAfterVal(FALSE, i, Len(rs), Len(loc[t].write_set), Len(txn[t]))]
        /\ UNCHANGED <<keepAll, kvs0, tscache, kvs, txn, nTxns, nOps, log, committed,
                       dispatched, casLog, writeHist>>

\* line 454: v1 = v2 = *r->tuple_ts
ValidateLoad(t) ==
    /\ pc[t] = "val_load"
    /\ loc' = [loc EXCEPT ![t].v1 = Word(RKid(t, loc[t].i + 1))]
    /\ pc' = [pc EXCEPT ![t] = "val_chk"]
    /\ UNCHANGED <<keepAll, kvs0, tscache, kvs, txn, nTxns, nOps, log, committed,
                   dispatched, casLog, writeHist>>

\* A validation that checks the lock but not the version.
IsAbortLockOnly(r, v1, lock_bit, cts) ==
    timestamp_set_get_rts(v1) <= cts /\ lock_bit = 1 /\ ~rw_entry_is_write(r)

\* lines 455-460: the two abort conditions; lock_bit is read from the word
\* again, not from v1.
IsAbort(r, v1, lock_bit, cts) ==
    LET is_wts_different == r.wts # v1.wts
        rts == timestamp_set_get_rts(v1)
        is_locked_by_another == rts <= cts /\ lock_bit = 1 /\ ~rw_entry_is_write(r)
    IN  is_wts_different \/ is_locked_by_another

\* line 464: the word has to be extended
NeedsExtend(v1, cts) == timestamp_set_get_rts(v1) <= cts

ValidateCheck(t) ==
    LET r == txn[t][loc[t].read_set[loc[t].i + 1]]
        v1 == loc[t].v1
        cts == loc[t].commit_ts
        nr == Len(loc[t].read_set)
        nw == Len(loc[t].write_set)
        j == SkipValidated(txn[t], loc[t].read_set, loc[t].i + 1, cts)
    IN  /\ pc[t] = "val_chk"
        /\ IF IsAbort(r, v1, Word(r.key.id).lock_bit, cts)
            THEN /\ loc' = [loc EXCEPT ![t].is_abort = TRUE, ![t].i = 0,
                                       ![t].v1 = ZeroTs]
                 /\ pc' = [pc EXCEPT ![t] = PcAfterVal(TRUE, 0, nr, nw, Len(txn[t]))]
            ELSE IF NeedsExtend(v1, cts)
            THEN /\ pc' = [pc EXCEPT ![t] = "val_cas"]
                 /\ UNCHANGED loc
            ELSE /\ loc' = [loc EXCEPT ![t].i = IAfterVal(FALSE, j, nr),
                                       ![t].v1 = ZeroTs]
                 /\ pc' = [pc EXCEPT ![t] = PcAfterVal(FALSE, j, nr, nw, Len(txn[t]))]
        /\ UNCHANGED <<keepAll, kvs0, tscache, kvs, txn, nTxns, nOps, log, committed,
                       dispatched, casLog, writeHist>>

\* lines 465-470: the compare-and-swap that extends rts to commit_ts
ValidateCas(t) ==
    LET kid == RKid(t, loc[t].i + 1)
        v1 == loc[t].v1
        cts == loc[t].commit_ts
        v2 == ExtendTs(v1, cts)
        nr == Len(loc[t].read_set)
        nw == Len(loc[t].write_set)
        j == SkipValidated(txn[t], loc[t].read_set, loc[t].i + 1, cts)
    IN  /\ pc[t] = "val_cas"
        /\ tscache' = CasCache(kid, v1, v2)
        /\ IF CasOk(kid, v1)
            THEN /\ loc' = [loc EXCEPT ![t].i = IAfterVal(FALSE, j, nr),
                                       ![t].v1 = ZeroTs]
                 /\ pc' = [pc EXCEPT ![t] = PcAfterVal(FALSE, j, nr, nw, Len(txn[t]))]
                 /\ casLog' = [casLog EXCEPT ![t] =
                                 @ \cup {[kid |-> kid, from |-> v1, to |-> v2]}]
            ELSE /\ loc' = [loc EXCEPT ![t].v1 = ZeroTs]
                 /\ pc' = [pc EXCEPT ![t] = "val_load"]
                 /\ UNCHANGED casLog
        /\ UNCHANGED <<keepAll, kvs0, kvs, txn, nTxns, nOps, log, committed, dispatched,
                       writeHist>>

\* lines 479-504: hand the write to the store according to its message class
ApplyWrite(t) ==
    LET w == txn[t][loc[t].write_set[loc[t].i + 1]] IN
    /\ pc[t] = "apply"
    /\ kvs' = KvsApply(kvs, w.key, w.msg)
    /\ dispatched' = [dispatched EXCEPT ![t] =
                        Append(@, [idx |-> loc[t].i + 1, key |-> w.key, msg |-> w.msg])]
    /\ writeHist' = [writeHist EXCEPT ![w.key] =
                       Append(@, [ts |-> loc[t].commit_ts,
                                  val |-> KvsApply(kvs, w.key, w.msg)[w.key]])]
    /\ pc' = [pc EXCEPT ![t] = "apply_load"]
    /\ UNCHANGED <<keepAll, kvs0, tscache, txn, loc, nTxns, nOps, log, committed, casLog>>

\* line 510: v1 = v2 = *w->tuple_ts
ApplyLoad(t) ==
    /\ pc[t] = "apply_load"
    /\ loc' = [loc EXCEPT ![t].v1 = Word(WKid(t, loc[t].i + 1))]
    /\ pc' = [pc EXCEPT ![t] = "apply_cas"]
    /\ UNCHANGED <<keepAll, kvs0, tscache, kvs, txn, nTxns, nOps, log, committed,
                   dispatched, casLog, writeHist>>

\* A committed word that keeps the wts of the word it replaces.
CommittedTsOldWts(v1, cts) == [v1 EXCEPT !.delta = 0, !.lock_bit = 0]

\* A committed word that keeps the delta of the word it replaces.
CommittedTsKeepDelta(v1, cts) == [v1 EXCEPT !.wts = cts, !.lock_bit = 0]

\* lines 511-513: the word a committed write leaves
CommittedTs(v1, cts) == [v1 EXCEPT !.wts = cts, !.delta = 0, !.lock_bit = 0]

\* line 514: the compare-and-swap that publishes the write and releases the lock
ApplyCas(t) ==
    LET kid == WKid(t, loc[t].i + 1)
        v1 == loc[t].v1
        v2 == CommittedTs(v1, loc[t].commit_ts)
        last == loc[t].i + 1 = Len(loc[t].write_set)
    IN  /\ pc[t] = "apply_cas"
        /\ tscache' = CasCache(kid, v1, v2)
        /\ IF CasOk(kid, v1)
            THEN /\ loc' = [loc EXCEPT ![t].i = IF last THEN 0 ELSE @ + 1,
                                       ![t].v1 = ZeroTs]
                 /\ pc' = [pc EXCEPT ![t] = IF last THEN "deinit" ELSE "apply"]
                 /\ casLog' = [casLog EXCEPT ![t] =
                                 @ \cup {[kid |-> kid, from |-> v1, to |-> v2]}]
            ELSE /\ loc' = [loc EXCEPT ![t].v1 = ZeroTs]
                 /\ pc' = [pc EXCEPT ![t] = "apply_load"]
                 /\ UNCHANGED casLog
        /\ UNCHANGED <<keepAll, kvs0, kvs, txn, nTxns, nOps, log, committed, dispatched,
                       writeHist>>

\* rw_entry_unlock, line 262, on the abort path (line 518)
AbortLoad(t) ==
    /\ pc[t] = "ab_load"
    /\ loc' = [loc EXCEPT ![t].v1 = Word(WKid(t, loc[t].i + 1))]
    /\ pc' = [pc EXCEPT ![t] = "ab_cas"]
    /\ UNCHANGED <<keepAll, kvs0, tscache, kvs, txn, nTxns, nOps, log, committed,
                   dispatched, casLog, writeHist>>

\* rw_entry_unlock, lines 263-264, on the abort path
AbortCas(t) ==
    LET kid == WKid(t, loc[t].i + 1)
        v1 == loc[t].v1
        v2 == UnlockedWord(v1)
        last == loc[t].i + 1 = Len(loc[t].write_set)
    IN  /\ pc[t] = "ab_cas"
        /\ tscache' = CasCache(kid, v1, v2)
        /\ IF CasOk(kid, v1)
            THEN /\ loc' = [loc EXCEPT ![t].i = IF last THEN 0 ELSE @ + 1,
                                       ![t].v1 = ZeroTs]
                 /\ pc' = [pc EXCEPT ![t] = IF last THEN "deinit" ELSE "ab_load"]
                 /\ UNCHANGED casLog
            ELSE /\ loc' = [loc EXCEPT ![t].v1 = ZeroTs]
                 /\ pc' = [pc EXCEPT ![t] = "ab_load"]
                 /\ UNCHANGED casLog
        /\ UNCHANGED <<keepAll, kvs0, kvs, txn, nTxns, nOps, log, committed, dispatched,
                       writeHist>>

\* ------------------------------------------------------------------ teardown
\* A teardown that leaves need_to_keep_key as it is when the cache hands the
\* entry's own key buffer back.
KeepKeyAfterRemoveStale(own, keep) == keep

\* rw_entry_iceberg_remove, lines 131-135: need_to_keep_key after a removal
\* that handed back the entry's own key buffer (own), or any other call.
KeepKeyAfterRemove(own, keep) == IF own THEN FALSE ELSE keep

\* transaction_deinit, one entry: rw_entry_iceberg_remove drops the entry's
\* reference (the keep-all-keys build only forgets the pointer) and frees the
\* key buffer of a slot it removed unless that is the entry's own;
\* rw_entry_deinit frees the entry's own key buffer unless the cache keeps it.
Deinit(t) ==
    LET e == loc[t].i + 1
        entry == txn[t][e]
        kid == entry.key.id
        last == e = Len(txn[t])
        removes == entry.tuple_ts /\ ~keepAll /\ tscache[kid].refcount <= 1
        owner == IF removes THEN tscache[kid].key ELSE Orphan
        own == removes /\ owner = <<t, e>>
        keep == KeepKeyAfterRemove(own, entry.need_to_keep_key)
        mine == [txn EXCEPT ![t][e].tuple_ts = FALSE,
                            ![t][e].need_to_keep_key = keep,
                            ![t][e].key_frees = IF keep THEN @ ELSE @ + 1]
    IN  /\ pc[t] = "deinit"
        /\ txn' = IF removes /\ ~own /\ owner # Orphan
                    THEN [mine EXCEPT ![owner[1]][owner[2]].key_frees = @ + 1]
                    ELSE mine
        /\ tscache' = IF entry.tuple_ts /\ ~keepAll
                        THEN IcebergRemove(tscache, entry.key.id) ELSE tscache
        /\ loc' = [loc EXCEPT ![t].i = IF last THEN 0 ELSE @ + 1]
        /\ pc' = [pc EXCEPT ![t] = IF last THEN "ret" ELSE "deinit"]
        /\ UNCHANGED <<keepAll, kvs0, kvs, nTxns, nOps, log, committed, dispatched,
                       casLog, writeHist>>

\* line 524 and line 533: commit returns -1 * is_abort, abort returns 0.
Return(t) ==
    /\ pc[t] = "ret"
    /\ committed' = IF loc[t].call = "commit" /\ ~loc[t].is_abort
                      THEN Append(committed, [ts |-> loc[t].commit_ts,
                                              log |-> CommittedLog(log[t])])
                      ELSE committed
    /\ pc' = [pc EXCEPT ![t] = "none"]
    /\ txn' = [txn EXCEPT ![t] = <<>>]
    /\ loc' = [loc EXCEPT ![t] = NoLoc]
    /\ log' = [log EXCEPT ![t] = <<>>]
    /\ dispatched' = [dispatched EXCEPT ![t] = <<>>]
    /\ casLog' = [casLog EXCEPT ![t] = {}]
    \* the key buffers the cache kept outlive the entries they came from
    /\ tscache' = [kid \in KeyIds |->
                     IF tscache[kid].present /\ tscache[kid].key[1] = t
                     THEN [tscache[kid] EXCEPT
                               !.key = Orphan,
                               !.key_frees = txn[t][tscache[kid].key[2]].key_frees]
                     ELSE tscache[kid]]
    /\ UNCHANGED <<keepAll, kvs0, kvs, nTxns, nOps, writeHist>>

\* An abort that returns without tearing the transaction down.
PcAfterAbortNoTeardown(ne) == "ret"

\* line 531: abort goes through transaction_deinit, which loops over the entries
PcAfterAbort(ne) == IF ne > 0 THEN "deinit" ELSE "ret"

\* transactional_splinterdb_abort
AbortCall(t) ==
    /\ pc[t] = "idle"
    /\ loc' = [loc EXCEPT ![t] = [NoLoc EXCEPT !.call = "abort"]]
    /\ pc' = [pc EXCEPT ![t] = PcAfterAbort(Len(txn[t]))]
    /\ UNCHANGED <<keepAll, kvs0, tscache, kvs, txn, nTxns, nOps, log, committed,
                   dispatched, casLog, writeHist>>

\* ------------------------------------------------------------------ specification
Next ==
    \E t \in Threads :
        \/ Begin(t)
        \/ \E op \in Ops : LocalWrite(t, op)
        \/ WriteSample(t)
        \/ \E op \in Ops : LookupStart(t, op)
        \/ LookupV1(t)
        \/ LookupRead(t)
        \/ LookupV2(t)
        \/ CommitStart(t)
        \/ LockLoad(t)
        \/ LockCas(t)
        \/ BackOffLoad(t)
        \/ BackOffCas(t)
        \/ RaiseCommitTs(t)
        \/ ValidateLoad(t)
        \/ ValidateCheck(t)
        \/ ValidateCas(t)
        \/ ApplyWrite(t)
        \/ ApplyLoad(t)
        \/ ApplyCas(t)
        \/ AbortLoad(t)
        \/ AbortCas(t)
        \/ Deinit(t)
        \/ Return(t)
        \/ AbortCall(t)

Spec == Init /\ [][Next]_vars

\* ------------------------------------------------------------------ rts extension
\* The inputs of read validation: the wts and delta of the word, how far the
\* commit timestamp lies beyond its rts, and how far the rts the lookup sampled
\* lies below it.
ExtWts == {0, 1, AgedWts}
ExtDeltas == {0, 1, DeltaMask}
ExtGaps == {0, 1, DeltaMask, DeltaMask + 1, AgedWts}

\* Thread 1 in commit, about to validate its read of the first key: it looked
\* the key up, possibly inserted it, and inserted the second key, whose word
\* (and that of the first key, if written) it has locked; commit_ts is the rts
\* of the second key plus one.
ExtState(W, delta, cts, rd, w1) ==
    LET e1 == [NewEntry(FullKey(1)) EXCEPT
                   !.is_read = TRUE, !.wts = W, !.rts = W + rd, !.tuple_ts = TRUE,
                   !.msg = IF w1 THEN InsertMsg(1) ELSE NullMsg]
        e2 == [NewEntry(FullKey(2)) EXCEPT !.tuple_ts = TRUE, !.msg = InsertMsg(1)]
        ws == IF w1 THEN <<1, 2>> ELSE <<2>>
        seen0 == [k \in UserKeys |-> IF k = FullKey(1) /\ W > 0 THEN 1 ELSE 0]
        l1 == [op |-> [kind |-> "lookup", key |-> FullKey(1), val |-> 0],
               res |-> IF W > 0 THEN 1 ELSE NotFound, own |-> FALSE, seen |-> seen0]
        lw(k) == [op |-> [kind |-> "insert", key |-> FullKey(k), val |-> 1],
                  res |-> 0, own |-> FALSE, seen |-> seen0]
    IN  /\ keepAll = TRUE
        /\ tscache = [k \in KeyIds |->
                        IF k = 1
                        THEN Slot([wts |-> W, delta |-> delta,
                                   lock_bit |-> IF w1 THEN 1 ELSE 0], 0)
                        ELSE Slot([wts |-> cts - 1, delta |-> 0, lock_bit |-> 1], 0)]
        /\ kvs = [k \in UserKeys |-> IF k = FullKey(1) /\ W > 0 THEN 1 ELSE NotFound]
        /\ writeHist = [k \in UserKeys |->
                          IF k = FullKey(1) /\ W > 0
                          THEN <<[ts |-> W, val |-> 1]>> ELSE <<>>]
        /\ txn = [t \in Threads |-> IF t = 1 THEN <<e1, e2>> ELSE <<>>]
        /\ pc = [t \in Threads |-> IF t = 1 THEN "val_load" ELSE "none"]
        /\ loc = [t \in Threads |->
                    IF t = 1
                    THEN [NoLoc EXCEPT !.call = "commit", !.commit_ts = cts,
                                       !.read_set = <<1>>, !.write_set = ws,
                                       !.lock_num = Len(ws)]
                    ELSE NoLoc]
        /\ log = [t \in Threads |->
                    IF t = 1
                    THEN (IF w1 THEN <<l1, lw(1), lw(2)>> ELSE <<l1, lw(2)>>)
                    ELSE <<>>]

InitExt ==
    /\ \E W \in ExtWts, delta \in ExtDeltas, gap \in ExtGaps, rd \in ExtDeltas,
          w1 \in BOOLEAN, past \in BOOLEAN :
          LET cts == IF past THEN W + delta - 1 ELSE W + delta + gap IN
          /\ rd <= delta
          /\ W + rd < cts
          /\ w1 => W + delta < cts
          /\ ExtState(W, delta, cts, rd, w1)
    /\ kvs0 = kvs
    /\ nTxns = 1
    /\ nOps = Len(log[1])
    /\ committed = <<>>
    /\ dispatched = [t \in Threads |-> <<>>]
    /\ casLog = [t \in Threads |-> {}]

\* The steps of read validation, lines 444-474.
NextExt ==
    \E t \in Threads :
        \/ ValidateLoad(t)
        \/ ValidateCheck(t)
        \/ ValidateCas(t)

SpecExt == InitExt /\ [][NextExt]_vars

\* ------------------------------------------------------------------ observers
\* The positions of its write set whose lock thread t holds: those locked in
\* the running attempt, less those already released.
HeldIdx(t) ==
    IF pc[t] \in {"lock", "lock_cas"} THEN 1..loc[t].lock_num
    ELSE IF pc[t] \in {"bo_load", "bo_cas"} THEN (loc[t].i + 1)..loc[t].lock_num
    ELSE IF pc[t] \in {"raise", "val_load", "val_chk", "val_cas"}
        THEN 1..Len(loc[t].write_set)
    ELSE IF pc[t] \in {"apply", "apply_load", "apply_cas", "ab_load", "ab_cas"}
        THEN (loc[t].i + 1)..Len(loc[t].write_set)
    ELSE {}

\* The holders of the lock of key kid: thread and write-set position.
Holders(kid) == {<<t, j>> \in Threads \X (1..MaxOps) : j \in HeldIdx(t) /\ WKid(t, j) = kid}

InCommit(t) == loc[t].call = "commit"
Returning(t) == pc[t] = "ret" /\ InCommit(t)

\* ------------------------------------------------------------------ claims

\* C3: write-write exclusion.  In every state each key's lock has at most one
\* holder (a thread between its successful try_lock on the key and its release
\* of it), and the word of a held key has its lock bit set.
C3_WriteWriteExclusion ==
    \A kid \in KeyIds :
        /\ Cardinality(Holders(kid)) <= 1
        /\ Holders(kid) # {} => tscache[kid].present /\ Word(kid).lock_bit = 1

\* C3 witness: one thread holds the lock of a key while another thread has loaded
\* the word of the same key for its own try_lock.
C3_Witness ==
    \E t1, t2 \in Threads :
        /\ t1 # t2
        /\ pc[t2] = "lock_cas"
        /\ \E j \in HeldIdx(t1) : WKid(t1, j) = WKid(t2, loc[t2].lock_num + 1)

\* C9: sorted lock acquisition.  Throughout commit the write set is in ascending
\* key order, and a thread that is about to try_lock a key holds only locks of
\* keys that are not greater.
C9_SortedLocking ==
    \A t \in Threads :
        InCommit(t) =>
            /\ \A j, k \in 1..Len(loc[t].write_set) :
                 j < k => rw_entry_key_compare(txn[t][loc[t].write_set[j]],
                                               txn[t][loc[t].write_set[k]]) <= 0
            /\ pc[t] \in {"lock", "lock_cas"} =>
                 \A j \in HeldIdx(t) :
                     rw_entry_key_compare(txn[t][loc[t].write_set[j]],
                         txn[t][loc[t].write_set[loc[t].lock_num + 1]]) <= 0

\* C9 witness: a transaction that wrote a greater key before a smaller one holds
\* the lock of the smaller and is about to lock the greater.
C9_Witness ==
    \E t \in Threads :
        /\ pc[t] = "lock_cas"
        /\ loc[t].lock_num = 1
        /\ loc[t].write_set[1] > loc[t].write_set[2]
        /\ txn[t][loc[t].write_set[1]].key.id < txn[t][loc[t].write_set[2]].key.id

\* C5: commit success postcondition.  A commit that found no abort condition
\* returns having handed every write-set entry to the store exactly once, in
\* write-set order, under the entry's key and message class, and having released
\* every write's slot with the word {wts = commit_ts, delta = 0, lock_bit = 0};
\* a commit that found one returns having handed nothing to the store.
C5_CommitSuccess ==
    \A t \in Threads :
        Returning(t) =>
            IF loc[t].is_abort THEN dispatched[t] = <<>>
            ELSE /\ Len(dispatched[t]) = Len(loc[t].write_set)
                 /\ \A j \in 1..Len(loc[t].write_set) :
                      LET w == txn[t][loc[t].write_set[j]] IN
                      /\ dispatched[t][j].idx = j
                      /\ dispatched[t][j].key = w.key
                      /\ dispatched[t][j].msg = w.msg
                      /\ w.msg.class \in {"INSERT", "UPDATE", "DELETE"}
                      /\ \E c \in casLog[t] :
                           /\ c.kid = w.key.id
                           /\ c.to = [wts |-> loc[t].commit_ts, delta |-> 0,
                                      lock_bit |-> 0]

\* C5 witness: a commit returns 0 after applying two writes.
C5_Witness ==
    \E t \in Threads :
        Returning(t) /\ ~loc[t].is_abort /\ Len(dispatched[t]) = 2

\* C4: for every key of the store, the commit timestamps of the writes applied
\* to it are strictly increasing in the order of application.
C4_SameKeyWritersIncrease ==
    \A k \in UserKeys :
        \A j \in 1..Len(writeHist[k]) :
            j > 1 => writeHist[k][j - 1].ts < writeHist[k][j].ts

\* C8: when two transactions each did one update of the same key, both before
\* any write of the other was applied, and both are about to return from
\* commit, exactly one of them returns 0.
C8_ConflictingUpdates ==
    \A t1, t2 \in Threads :
        (/\ t1 # t2
         /\ Returning(t1) /\ Returning(t2)
         /\ Len(log[t1]) = 1 /\ Len(log[t2]) = 1
         /\ log[t1][1].op.kind = "update" /\ log[t2][1].op.kind = "update"
         /\ log[t1][1].op.key = log[t2][1].op.key
         /\ log[t1][1].seen = log[t2][1].seen)
        => loc[t1].is_abort # loc[t2].is_abort

\* ---- serial replay
IsWriteOp(op) == op.kind \in {"insert", "update", "delete"}

\* One transaction run alone on a store: its calls in order against its own
\* entries; ok says that every lookup returned what the history recorded.
RECURSIVE ReplayOps(_, _, _, _)
ReplayOps(entries, store, lg, i) ==
    IF i > Len(lg) THEN [ok |-> TRUE, entries |-> entries]
    ELSE LET op == lg[i].op
             e == EntryIndex(entries, op.key)
         IN  IF op.kind = "lookup"
             THEN LET es == rw_entry_get(entries, op.key, TRUE)
                      val == IF rw_entry_is_write(es[e]) THEN es[e].msg.data
                             ELSE store[op.key]
                      rest == ReplayOps(es, store, lg, i + 1)
                  IN  [ok |-> val = lg[i].res /\ rest.ok, entries |-> rest.entries]
             ELSE LET es == rw_entry_get(entries, op.key, FALSE)
                  IN  ReplayOps([es EXCEPT ![e].msg = MergeMsg(@, OpMsg(op))],
                                store, lg, i + 1)

RECURSIVE ApplyAll(_, _, _, _)
ApplyAll(store, entries, ws, i) ==
    IF i > Len(ws) THEN store
    ELSE ApplyAll(KvsApply(store, entries[ws[i]].key, entries[ws[i]].msg),
                  entries, ws, i + 1)

\* The committed transactions replayed one at a time in the given order.
RECURSIVE SerialRun(_, _, _)
SerialRun(store, order, i) ==
    IF i > Len(order) THEN [ok |-> TRUE, store |-> store]
    ELSE LET r == ReplayOps(<<>>, store, committed[order[i]].log, 1)
             ws == SortWriteSet(r.entries, SelectIdx(r.entries, 1, TRUE))
             rest == SerialRun(ApplyAll(store, r.entries, ws, 1), order, i + 1)
         IN  [ok |-> r.ok /\ rest.ok, store |-> rest.store]

\* The orders of the committed transactions that respect commit timestamps.
TsOrders ==
    LET n == Len(committed) IN
    {f \in [1..n -> 1..n] :
        /\ \A a, b \in 1..n : a # b => f[a] # f[b]
        /\ \A a, b \in 1..n : a < b => committed[f[a]].ts <= committed[f[b]].ts}

\* C1: serializability.  Whenever no commit is running, the committed
\* transactions can be replayed one at a time in some order of non-decreasing
\* commit timestamp so that every lookup returns what it returned in the run and
\* the store ends as it is.
C1_Serializable ==
    (\A t \in Threads : ~InCommit(t)) =>
        \E f \in TsOrders :
            LET r == SerialRun(kvs0, f, 1) IN r.ok /\ r.store = kvs

\* C6: read-own-write.  A lookup that follows a write of the same key in its
\* transaction returns the pending message of the key (the last insert or
\* delete, merged with the updates after it) and does not call the store.
RECURSIVE PendingMsg(_, _, _)
PendingMsg(lg, key, j) ==
    IF j = 0 THEN NullMsg
    ELSE LET prev == PendingMsg(lg, key, j - 1) IN
         IF IsWriteOp(lg[j].op) /\ lg[j].op.key = key
            THEN MergeMsg(prev, OpMsg(lg[j].op)) ELSE prev

C6_ReadOwnWrite ==
    \A t \in Threads :
        \A j \in 1..Len(log[t]) :
            LET op == log[t][j].op
                pending == PendingMsg(log[t], op.key, j - 1)
            IN  (op.kind = "lookup" /\ ~message_is_null(pending)) =>
                    log[t][j].own /\ log[t][j].res = pending.data

\* ---- stale reads
\* Thread t looked up a key of full length, a write of that key was applied
\* after the lookup returned, t then wrote another key, and t's commit is about
\* to return.
StaleReadScenario(t) ==
    /\ Returning(t)
    /\ Len(log[t]) = 2
    /\ log[t][1].op.kind = "lookup" /\ log[t][1].op.key.full
    /\ IsWriteOp(log[t][2].op)
    /\ log[t][2].op.key.id # log[t][1].op.key.id
    /\ log[t][2].seen[log[t][1].op.key] > log[t][1].seen[log[t][1].op.key]

\* C7 as claimed: in the stale-read scenario commit returns -1.
C7_StaleReadAlwaysAborts ==
    \A t \in Threads : StaleReadScenario(t) => loc[t].is_abort

\* A step of thread t's validation that found the word's wts different from
\* the entry's aborts the commit, which goes on to release and teardown.
StaleValidationAborts(t) ==
    (/\ pc[t] = "val_chk"
     /\ pc'[t] # "val_chk"
     /\ loc[t].v1.wts # txn[t][loc[t].read_set[loc[t].i + 1]].wts)
    => /\ loc'[t].is_abort
       /\ pc'[t] \in {"ab_load", "deinit"}
       /\ dispatched'[t] = <<>>

\* C7 amended: in the stale-read scenario commit returns -1 provided the rts the
\* lookup sampled is below the commit timestamp (the read is validated); and
\* whenever commit validates a read entry whose wts differs from the word's,
\* it aborts, and an aborting commit has applied no write.
C7_StaleReadAborts ==
    /\ [](\A t \in Threads :
            /\ (StaleReadScenario(t) /\ txn[t][1].rts < loc[t].commit_ts)
                   => loc[t].is_abort
            /\ loc[t].is_abort => dispatched[t] = <<>>)
    /\ [][\A t \in Threads : StaleValidationAborts(t)]_vars

\* C7 witness: the stale-read scenario with the read validated and aborted.
C7_Witness ==
    \E t \in Threads :
        StaleReadScenario(t) /\ txn[t][1].rts < loc[t].commit_ts /\ loc[t].is_abort

\* ---- abort
ReadKids(t) == {RKid(t, j) : j \in 1..Len(loc[t].read_set)}

\* C2 as claimed: an aborting commit returns having handed nothing to the
\* store and having changed the wts of no word; its own swaps changed only the
\* delta of words of its read set.
C2_AbortLeavesWts ==
    \A t \in Threads :
        (Returning(t) /\ loc[t].is_abort) =>
            /\ dispatched[t] = <<>>
            /\ \A c \in casLog[t] :
                 /\ c.to.wts = c.from.wts
                 /\ c.to.lock_bit = c.from.lock_bit
                 /\ c.kid \in ReadKids(t)

\* C2 amended: an aborting commit returns having handed nothing to the store and
\* holding no lock; its own swaps of timestamps are rts extensions of words of
\* its read set: each sets rts (wts + delta) to commit_ts, not below the old
\* rts, keeps the lock bit, and moves wts forward by a multiple of 0x8000
\* (by nothing when commit_ts - wts fits in 15 bits).
C2_AbortAtomicity ==
    \A t \in Threads :
        (Returning(t) /\ loc[t].is_abort) =>
            /\ dispatched[t] = <<>>
            /\ HeldIdx(t) = {}
            /\ \A c \in casLog[t] :
                 /\ c.kid \in ReadKids(t)
                 /\ c.to.lock_bit = c.from.lock_bit
                 /\ timestamp_set_get_rts(c.to) = loc[t].commit_ts
                 /\ timestamp_set_get_rts(c.to) >= timestamp_set_get_rts(c.from)
                 /\ c.to.wts >= c.from.wts
                 /\ (c.to.wts - c.from.wts) % (DeltaMask + 1) = 0
                 /\ (loc[t].commit_ts - c.from.wts <= DeltaMask => c.to.wts = c.from.wts)

\* C2 witness: an aborting commit with a write set returns after its validation
\* extended the rts of a read slot.
C2_Witness ==
    \E t \in Threads :
        /\ Returning(t) /\ loc[t].is_abort
        /\ loc[t].write_set # <<>>
        /\ casLog[t] # {}

\* C10: rts extension arithmetic.  The word written by the successful
\* compare-and-swap of an extension from a snapshot (wts = W, delta, lock_bit = L)
\* has W + delta <= commit_ts, wts = W + ((commit_ts - W) & ~0x7fff),
\* delta = (commit_ts - W) & 0x7fff and lock_bit = L: its rts is commit_ts, its
\* delta fits in 15 bits, and commit_ts - W is not negative.
C10_ExtensionArithmetic ==
    \A t \in Threads :
        \A c \in casLog[t] :
            LET W == c.from.wts
                d == loc[t].commit_ts - W
            IN  /\ W + c.from.delta <= loc[t].commit_ts
                /\ d >= 0
                /\ c.to.wts = W + (DeltaMask + 1) * (d \div (DeltaMask + 1))
                /\ c.to.delta = d % (DeltaMask + 1)
                /\ c.to.delta >= 0 /\ c.to.delta <= DeltaMask
                /\ c.to.lock_bit = c.from.lock_bit
                /\ timestamp_set_get_rts(c.to) = loc[t].commit_ts

\* C10 witness: an extension over a distance that does not fit in 15 bits, from
\* a word with a non-zero delta, has moved wts forward.
C10_Witness ==
    \E t \in Threads :
        \E c \in casLog[t] :
            /\ loc[t].commit_ts - c.from.wts > DeltaMask
            /\ c.from.delta > 0
            /\ c.to.wts > c.from.wts
            /\ c.to.delta > 0

\* ---- references
\* The live RW entries that hold a reference to the slot of key kid.
Refs(kid) ==
    {<<t, e>> \in Threads \X (1..MaxOps) :
        e <= Len(txn[t]) /\ txn[t][e].tuple_ts /\ txn[t][e].key.id = kid}

\* No transaction is open: every one begun has returned from commit or abort.
AllDone == \A t \in Threads : pc[t] = "none"

RefcountConserved ==
    /\ \A kid \in KeyIds :
         /\ tscache[kid].present <=> Refs(kid) # {}
         /\ tscache[kid].present => tscache[kid].refcount = Cardinality(Refs(kid))
    /\ AllDone => \A kid \in KeyIds : ~tscache[kid].present

AbortStep(t) ==
    \/ loc[t].call # "abort" /\ loc'[t].call = "abort"
    \/ loc[t].call = "abort" /\ <<pc[t], loc[t], txn[t]>>' # <<pc[t], loc[t], txn[t]>>

\* C12: abort.  Every step of an abort leaves the store alone, commits nothing,
\* and leaves the word of every slot that stays in the cache as it was (a slot
\* goes only with its last reference, in the removing build); when its teardown
\* is done no entry holds a slot reference, and on return the transaction has no
\* entries; an abort of a transaction with no entries changes no shared state.
C12_Abort ==
    [][\A t \in Threads :
         AbortStep(t) =>
            /\ kvs' = kvs
            /\ committed' = committed
            /\ writeHist' = writeHist
            /\ \A kid \in KeyIds :
                 IF tscache'[kid].present
                 THEN tscache[kid].present /\ tscache'[kid].ts = tscache[kid].ts
                 ELSE tscache[kid].present =>
                        ~keepAll /\ tscache[kid].refcount = 1
            /\ Len(txn[t]) = 0 => tscache' = tscache
            /\ pc'[t] = "ret" => \A e \in 1..Len(txn'[t]) : ~txn'[t][e].tuple_ts
            /\ pc'[t] = "none" => txn'[t] = <<>>]_vars

\* C12 witness: an abort is returning after the teardown of a transaction that
\* referenced the slot of a key whose word another transaction has written.
C12_Witness ==
    \E t \in Threads :
        /\ pc[t] = "ret" /\ loc[t].call = "abort"
        /\ Len(txn[t]) >= 1
        /\ tscache[txn[t][1].key.id].present
        /\ tscache[txn[t][1].key.id].ts.wts > 0

\* ---- causes of abort
\* How many writes had been applied to key k when thread t's transaction last
\* sampled the word of k (in a lookup, an update or a delete).
RECURSIVE LastSeen(_, _, _)
LastSeen(lg, k, j) ==
    IF j = 0 THEN 0
    ELSE IF lg[j].op.kind # "insert" /\ rw_entry_set_key(lg[j].op.key) = k
        THEN lg[j].seen[k]
        ELSE LastSeen(lg, k, j - 1)

\* Thread t's validation is at a read entry that makes it abort.
ValidationAborts(t) ==
    /\ pc[t] = "val_chk"
    /\ LET r == txn[t][loc[t].read_set[loc[t].i + 1]]
       IN  IsAbort(r, loc[t].v1, Word(r.key.id).lock_bit, loc[t].commit_ts)

\* C13: aborts have a cause.  Whenever validation decides to abort at a read
\* entry, a write of another transaction was applied to the entry's key after
\* this transaction sampled it, or another transaction holds the key's lock.
C13_AbortsHaveCause ==
    \A t \in Threads :
        ValidationAborts(t) =>
            LET r == txn[t][loc[t].read_set[loc[t].i + 1]]
            IN  \/ Len(writeHist[r.key]) > LastSeen(log[t], r.key, Len(log[t]))
                \/ \E u \in Threads \ {t} :
                      \E j \in HeldIdx(u) : WKid(u, j) = r.key.id

\* C14: wts monotonicity.  A committed write raises the wts of its key to its
\* commit timestamp, and wts never decreases: so whenever a key has a word that
\* no writer holds, its wts is not below the commit timestamp of any write
\* already applied to the key.
C14_WtsMonotone ==
    \A kid \in KeyIds :
        (tscache[kid].present /\ Word(kid).lock_bit = 0) =>
            \A j \in 1..Len(writeHist[FullKey(kid)]) :
                writeHist[FullKey(kid)][j].ts <= Word(kid).wts

\* ---- stable read
\* Thread t's lookup, served by the store, is about to return: the word it loads
\* after the read is the unlocked word it loaded before.
LookupReturning(t) ==
    /\ pc[t] = "lk_v2"
    /\ ~loc[t].own
    /\ timestamp_set_is_equal(loc[t].v1, Word(txn[t][loc[t].e].key.id))
    /\ loc[t].v1.lock_bit = 0

\* C15: stable read.  The value a lookup returns from the store is the value
\* left by the committed write of its key whose commit timestamp is the wts the
\* lookup records (v1.wts), or the initial value of the key if there is no such
\* write.
C15_StableRead ==
    \A t \in Threads :
        LookupReturning(t) =>
            LET k == txn[t][loc[t].e].key
                hits == {j \in 1..Len(writeHist[k]) :
                            writeHist[k][j].ts = loc[t].v1.wts}
            IN  IF hits = {} THEN loc[t].res = kvs0[k]
                ELSE \E j \in hits : loc[t].res = writeHist[k][j].val

\* ---- commit timestamp
\* The largest member of a non-empty set of numbers.
Largest(S) == CHOOSE m \in S : \A x \in S : x <= m

ReadWts(t) == {txn[t][loc[t].read_set[j]].wts : j \in 1..Len(loc[t].read_set)}
WriteRtsNext(t) ==
    {timestamp_set_get_rts(Word(WKid(t, j))) + 1 : j \in 1..Len(loc[t].write_set)}

StepOf(t) == <<pc[t], loc[t], txn[t]>>' # <<pc[t], loc[t], txn[t]>>

\* Thread t is at the start of a lock-acquisition attempt.
AttemptStart(t) == InCommit(t) /\ pc[t] = "lock" /\ loc[t].lock_num = 0

\* Thread t's try_lock on its next write is about to fail.
TryLockFails(t) ==
    \/ /\ pc[t] = "lock"
       /\ txn[t][loc[t].write_set[loc[t].lock_num + 1]].tuple_ts
       /\ Word(WKid(t, loc[t].lock_num + 1)).lock_bit = 1
    \/ /\ pc[t] = "lock_cas"
       /\ Word(WKid(t, loc[t].lock_num + 1)) # loc[t].v1

BackOffStep(t) ==
    /\ (TryLockFails(t) /\ StepOf(t)) =>
          /\ tscache' = tscache
          /\ IF loc[t].lock_num = 0
             THEN pc'[t] = "lock" /\ loc'[t].lock_num = 0
             ELSE pc'[t] = "bo_load" /\ loc'[t].i = 0
                  /\ loc'[t].lock_num = loc[t].lock_num
    /\ (pc[t] = "bo_cas" /\ StepOf(t)) =>
          LET kid == WKid(t, loc[t].i + 1) IN
          /\ loc[t].i + 1 <= loc[t].lock_num
          /\ IF Word(kid) = loc[t].v1
             THEN /\ loc[t].v1.lock_bit = 1
                  /\ tscache' = [tscache EXCEPT ![kid].ts.lock_bit = 0]
                  /\ IF loc[t].i + 1 = loc[t].lock_num
                     THEN pc'[t] = "lock" /\ loc'[t].lock_num = 0
                     ELSE pc'[t] = "bo_load" /\ loc'[t].i = loc[t].i + 1
             ELSE tscache' = tscache /\ pc'[t] = "bo_load"
                  /\ loc'[t].i = loc[t].i

\* C17: no-wait back-off.  A failed try_lock on the write at position i changes
\* no word; the thread then clears the lock bit of positions 1..i-1, one
\* compare-and-swap each that changes nothing else, and goes back to the first
\* write; with nothing locked it goes back at once.  At the start of every
\* attempt the thread holds no lock: a set lock bit on a word of its write set
\* is another thread's.  It never stays at a failed try_lock while holding a
\* lock.
C17_NoWaitBackOff ==
    /\ [](\A t \in Threads :
            AttemptStart(t) =>
               \A j \in 1..Len(loc[t].write_set) :
                  (/\ tscache[WKid(t, j)].present
                   /\ Word(WKid(t, j)).lock_bit = 1) =>
                      \E u \in Threads \ {t} :
                         \E k \in HeldIdx(u) : WKid(u, k) = WKid(t, j))
    /\ [][\A t \in Threads : BackOffStep(t)]_vars

\* C17 witness: a thread that locked its first write and found the second
\* locked by another thread is unlocking the first.
C17_Witness ==
    \E t \in Threads :
        /\ pc[t] = "bo_cas"
        /\ loc[t].lock_num = 1
        /\ \E u \in Threads \ {t} :
              \E k \in HeldIdx(u) : WKid(u, k) = WKid(t, 2)

\* ---- termination
\* Fair scheduling of threads: a thread that can take a step that changes the
\* state eventually takes one.  (A spin that changes nothing is not a step.)
ThreadStep(t) == Next /\ StepOf(t)

\* Runs of at most LiveOps calls of insert/update/delete/lookup, in the build
\* that removes unreferenced cache slots, from a fresh store.
LiveOps == 2

InitLive ==
    /\ InitFresh /\ ~keepAll
    /\ kvs0 = kvs
    /\ pc = [t \in Threads |-> "none"]
    /\ txn = [t \in Threads |-> <<>>]
    /\ loc = [t \in Threads |-> NoLoc]
    /\ nTxns = 0
    /\ nOps = MaxOps - LiveOps
    /\ log = [t \in Threads |-> <<>>]
    /\ committed = <<>>
    /\ dispatched = [t \in Threads |-> <<>>]
    /\ casLog = [t \in Threads |-> {}]
    /\ writeHist = [k \in UserKeys |-> <<>>]

SpecFair == InitLive /\ [][Next]_vars /\ \A t \in Threads : WF_vars(ThreadStep(t))

\* Thread t is inside a call of commit or of lookup.
InCall(t) == InCommit(t) \/ pc[t] \in {"lk_v1", "lk_read", "lk_v2"}

\* C18: termination.  Under fair scheduling every call of commit and every call
\* of lookup eventually returns.
C18_Termination ==
    \A t \in Threads : InCall(t) ~> (pc[t] \in {"idle", "none"})

\* ---- read snapshot
\* Thread t is in the step of update or delete that samples the timestamp
\* word into the entry the call works on.
WriteSampling(t) == pc[t] = "w_sample" /\ pc'[t] = "idle"

\* The (wts, rts) of entry e of thread t are the same after the step.
SnapshotKept(t, e) ==
    /\ txn'[t][e].wts = txn[t][e].wts
    /\ txn'[t][e].rts = txn[t][e].rts

\* C19: read snapshot integrity.  An update or a delete never changes the
\* (wts, rts) of an entry that a lookup of the same transaction has set, so
\* commit validates the entry under the snapshot the lookup read.
C19_ReadSnapshotKept ==
    [][\A t \in Threads :
          WriteSampling(t) /\ txn[t][loc[t].e].is_read => SnapshotKept(t, loc[t].e)]_vars

\* ---- entry deduplication
\* The user keys thread t has passed to insert, update, delete and lookup in
\* its present transaction, the call in progress included.
KeysCalled(t) ==
    {log[t][j].op.key : j \in 1..Len(log[t])}
        \cup (IF pc[t] \in {"w_sample", "lk_v1", "lk_read", "lk_v2"}
                THEN {loc[t].op.key} ELSE {})

\* The transaction of thread t holds at most one entry for each user key.
OneEntryPerKey(t) == Len(txn[t]) <= Cardinality(KeysCalled(t))

\* No step clears is_read of an entry that stays in the transaction.
IsReadKept(t) ==
    \A e \in 1..Len(txn[t]) :
        txn[t][e].is_read /\ e <= Len(txn'[t]) => txn'[t][e].is_read

\* C20: entry deduplication.  After any calls on keys of any length up to
\* KEY_SIZE a transaction holds at most one entry for each distinct user key,
\* and is_read of an entry, once set, stays set until teardown.
C20_Deduplication ==
    /\ [](\A t \in Threads : OneEntryPerKey(t))
    /\ [][\A t \in Threads : IsReadKept(t)]_vars

\* ---- write merge rules
\* The rule for one write landing on the pending message old of its key: an
\* insert or a delete replaces it, an update is merged into it.
MergeRule(old, new) ==
    IF new.class \in {"INSERT", "DELETE"} \/ old.class = "INVALID" THEN new
    ELSE data_merge_tuples(old, new)

\* The pending message of key after the first j calls of the history lg.
RECURSIVE RulePending(_, _, _)
RulePending(lg, key, j) ==
    IF j = 0 THEN NullMsg
    ELSE LET prev == RulePending(lg, key, j - 1) IN
         IF IsWriteOp(lg[j].op) /\ lg[j].op.key = key
            THEN MergeRule(prev, OpMsg(lg[j].op)) ELSE prev

\* The entries of thread t that hold a pending message under the stored key
\* of user key k.
PendingEntries(t, k) ==
    {e \in 1..Len(txn[t]) :
        txn[t][e].key = rw_entry_set_key(k) /\ ~message_is_null(txn[t][e].msg)}

\* An update is never recorded on top of a pending delete.
NoUpdateOnDelete(t) ==
    \A j \in 1..Len(log[t]) :
        log[t][j].op.kind = "update" =>
            RulePending(log[t], log[t][j].op.key, j - 1).class # "DELETE"

\* C21: write merge rules.  Between calls, every key a transaction has written
\* has one pending message: the last insert or delete of the key merged with
\* the updates after it; no update lands on a pending delete.
C21_WriteMerge ==
    \A t \in Threads :
        pc[t] = "idle" =>
            /\ NoUpdateOnDelete(t)
            /\ \A k \in UserKeys :
                  LET want == RulePending(log[t], k, Len(log[t])) IN
                  ~message_is_null(want) =>
                      /\ Cardinality(PendingEntries(t, k)) = 1
                      /\ \A e \in PendingEntries(t, k) : txn[t][e].msg = want

\* ---- a transaction on its own
\* Thread t runs the only transaction begun so far: no other transaction is
\* committing or has committed since it began.
RunsAlone(t) == nTxns = 1 /\ pc[t] # "none"

\* C22: a transaction on its own commits.  When commit of a transaction that
\* ran alone is about to return, validation has not aborted it, whatever its
\* lookups and writes were.
C22_AloneCommits ==
    \A t \in Threads : RunsAlone(t) /\ Returning(t) => ~loc[t].is_abort

\* ---- lock and unlock
\* wts and delta of the word of key kid.
TsPart(kid) == <<tscache[kid].ts.wts, tscache[kid].ts.delta>>

\* Thread t is acquiring its write locks or giving them back on the no-wait path.
LockPhase(t) == pc[t] \in {"lock", "lock_cas", "bo_load", "bo_cas"}

\* The lock of key kid is held by a thread that is still acquiring locks.
HeldInAttempt(kid) == \E h \in Holders(kid) : LockPhase(h[1])

\* The step, if it is a step of rw_entry_try_lock or rw_entry_unlock by thread
\* t, changes nothing but the lock bit of the word it works on: a try_lock
\* that succeeds sets it, one that fails changes nothing, an unlock clears it.
LockUnlockFrame(t) ==
    /\ pc[t] = "lock" /\ txn[t][loc[t].write_set[loc[t].lock_num + 1]].tuple_ts
          => tscache' = tscache
    /\ pc[t] = "lock_cas" =>
          LET kid == WKid(t, loc[t].lock_num + 1) IN
          \/ tscache' = tscache /\ pc'[t] # "lock_cas" /\ loc'[t].lock_num <= loc[t].lock_num
          \/ /\ tscache[kid].ts.lock_bit = 0
             /\ tscache' = [tscache EXCEPT ![kid].ts.lock_bit = 1]
             /\ loc'[t].lock_num = loc[t].lock_num + 1
    /\ pc[t] \in {"bo_cas", "ab_cas"} =>
          LET kid == WKid(t, loc[t].i + 1) IN
          \/ tscache' = tscache /\ loc'[t].i = loc[t].i
          \/ tscache' = [tscache EXCEPT ![kid].ts.lock_bit = 0]

\* No step of any thread changes wts or delta of a word whose lock is held by
\* a thread that is still acquiring locks.
AttemptFrame(kid) ==
    tscache[kid].present /\ HeldInAttempt(kid) =>
        tscache'[kid].present /\ TsPart(kid)' = TsPart(kid)

WriteCallStep(t) ==
    /\ StepOf(t)
    /\ pc[t] \in {"idle", "w_sample"}
    /\ pc'[t] \in {"idle", "w_sample"}

\* The step leaves the store and every timestamp word there is as they were.
NoExternalEffect ==
    /\ kvs' = kvs
    /\ \A kid \in KeyIds :
          tscache[kid].present =>
              tscache'[kid].present /\ tscache'[kid].ts = tscache[kid].ts

\* The step is the apply step of a commit that validation has not aborted.
ApplyStep(t) == StepOf(t) /\ pc[t] = "apply" /\ InCommit(t) /\ ~loc[t].is_abort

\* Every key of the store holds what the last applied write left, or what it
\* held at the start when no write has been applied to it.
StoreIsApplied ==
    \A k \in UserKeys :
        kvs[k] = IF writeHist[k] = <<>> THEN kvs0[k]
                 ELSE writeHist[k][Len(writeHist[k])].val

\* C24: buffered writes have no effect outside the transaction.  A step of
\* insert, update or delete changes neither the store nor any timestamp word;
\* the store changes only in the apply step of a commit that has not aborted,
\* so it never holds a write that has not reached apply.
C24_BufferedWrites ==
    /\ [](StoreIsApplied /\ \A t \in Threads :
             pc[t] \in {"apply", "apply_load", "apply_cas"} => ~loc[t].is_abort)
    /\ [][/\ \A t \in Threads : WriteCallStep(t) => NoExternalEffect
          /\ kvs' # kvs => \E t \in Threads : ApplyStep(t)]_vars

\* C24 witness: a thread holds a pending insert of a value the store does not
\* have under the key, and another thread's lookup of the key has returned
\* what the store has.
C24_Witness ==
    \E t, u \in Threads :
        /\ t # u /\ pc[t] = "idle"
        /\ \E e \in 1..Len(txn[t]) :
              /\ txn[t][e].msg.class = "INSERT"
              /\ kvs[txn[t][e].key] # txn[t][e].msg.data
              /\ \E j \in 1..Len(log[u]) :
                    /\ log[u][j].op.kind = "lookup"
                    /\ log[u][j].op.key = txn[t][e].key
                    /\ log[u][j].res = kvs[txn[t][e].key]

\* ---- key buffers
\* How often the key buffer that the slot of key kid uses as its key has been freed.
SlotKeyFrees(kid) ==
    LET o == tscache[kid].key IN
    IF o = Orphan THEN tscache[kid].key_frees ELSE txn[o[1]][o[2]].key_frees

\* Entry e of thread t owns the buffer the cache uses as the key of a slot.
IsSlotKey(t, e) ==
    \E kid \in KeyIds : tscache[kid].present /\ tscache[kid].key = <<t, e>>

\* No key buffer has been freed twice, none that the cache uses has been freed,
\* and a transaction whose teardown is over has freed every key buffer of its
\* own that the cache does not use.
KeyBuffersSound ==
    /\ \A t \in Threads : \A e \in 1..Len(txn[t]) : txn[t][e].key_frees <= 1
    /\ \A kid \in KeyIds : tscache[kid].present => SlotKeyFrees(kid) = 0
    /\ \A t \in Threads :
          pc[t] = "ret" =>
              \A e \in 1..Len(txn[t]) : txn[t][e].key_frees = 1 \/ IsSlotKey(t, e)

\* The step, if it removes the slot of key kid, is the release that drops its
\* refcount to zero, and it frees the slot's key buffer.
RemovalFreesKey(kid) ==
    tscache[kid].present /\ ~tscache'[kid].present =>
        /\ tscache[kid].refcount = 1
        /\ \E t \in Threads : pc[t] = "deinit" /\ StepOf(t)
        /\ LET o == tscache[kid].key IN
           o # Orphan => txn'[o[1]][o[2]].key_frees = 1

\* The cache holds no slot: every key buffer it used has been freed.
CacheKeysFreed == \A kid \in KeyIds : ~tscache[kid].present

\* C25 as claimed: in either build every key buffer is freed exactly once, so
\* once every transaction has returned no key buffer is left with the cache.
C25_EveryKeyBufferFreed ==
    /\ [](KeyBuffersSound /\ (AllDone => CacheKeysFreed))
    /\ [][\A kid \in KeyIds : RemovalFreesKey(kid)]_vars

\* C25 amended: no key buffer is freed twice, the buffer a slot uses as its key
\* is not freed while the slot is in the cache, and the release that removes
\* the slot frees it; in the removing build every key buffer has been freed
\* once every transaction has returned.
C25_KeyBufferHandshake ==
    /\ [](KeyBuffersSound /\ (~keepAll /\ AllDone => CacheKeysFreed))
    /\ [][\A kid \in KeyIds : RemovalFreesKey(kid)]_vars

\* C25 witness: in the removing build the key buffer of a live entry, which
\* the cache kept when the entry dropped its reference, has been freed by the
\* release of another entry that removed the slot.
C25_Witness ==
    /\ ~keepAll
    /\ \E t \in Threads : \E e \in 1..Len(txn[t]) :
          txn[t][e].key_frees = 1 /\ txn[t][e].need_to_keep_key

\* ---- rts of a slot
RtsIn(cache, kid) == timestamp_set_get_rts(cache[kid].ts)
Rts(kid) == RtsIn(tscache, kid)

\* The step does not lower the rts of the slot of key kid, if the slot is
\* there before and after it.
RtsKept(kid) ==
    tscache[kid].present /\ tscache'[kid].present => Rts(kid)' >= Rts(kid)

\* The step, if it is thread t's compare-and-swap of validation and changes
\* the word, sets the rts of the word to commit_ts, at least the old rts.
ExtensionStep(t) ==
    StepOf(t) /\ pc[t] = "val_cas" /\ tscache' # tscache =>
        LET kid == RKid(t, loc[t].i + 1) IN
        RtsIn(tscache', kid) = loc[t].commit_ts /\ RtsIn(tscache', kid) >= Rts(kid)

\* The step, if it is thread t's compare-and-swap of apply and succeeds, sets
\* the rts of the word to commit_ts, beyond the old rts by at least least.
PublishStep(t, least) ==
    StepOf(t) /\ pc[t] = "apply_cas" /\ tscache' # tscache =>
        LET kid == WKid(t, loc[t].i + 1) IN
        /\ RtsIn(tscache', kid) = loc[t].commit_ts
        /\ RtsIn(tscache', kid) >= Rts(kid) + least

\* The step, if it is a try_lock or an unlock of thread t, leaves every rts.
LockStepKeepsRts(t) ==
    StepOf(t) /\ pc[t] \in {"lock_cas", "bo_cas", "ab_cas"} =>
        \A kid \in KeyIds : tscache[kid].present => Rts(kid)' = Rts(kid)

LocksAreHeld ==
    \A kid \in KeyIds :
        tscache[kid].present /\ Word(kid).lock_bit = 1 => Holders(kid) # {}

\* With no thread inside commit no lock bit is set.
NoCommitNoLock ==
    (\A t \in Threads : ~InCommit(t)) =>
        \A kid \in KeyIds : tscache[kid].present => Word(kid).lock_bit = 0

\* A commit that is past its releases, or about to return, holds no lock.
ReturningHoldsNone ==
    \A t \in Threads :
        InCommit(t) /\ pc[t] \in {"deinit", "ret"} =>
            \A kid \in KeyIds :
                tscache[kid].present /\ Word(kid).lock_bit = 1 =>
                    \E h \in Holders(kid) : h[1] # t

\* The step removes no slot whose lock bit is set.
RemovesUnlocked ==
    \A kid \in KeyIds :
        tscache[kid].present /\ ~tscache'[kid].present => Word(kid).lock_bit = 0

\* C27: no lock outlives its commit.  When commit returns, with either result,
\* the transaction holds no lock; with no thread inside commit every lock bit
\* is 0; no slot leaves the cache with its lock bit set.
C27_NoLockOutlivesCommit ==
    /\ [](LocksAreHeld /\ NoCommitNoLock /\ ReturningHoldsNone)
    /\ [][RemovesUnlocked]_vars

\* C27 witness: a commit that validation aborted after it had locked its write
\* set is about to return, and the words it had locked are unlocked.
C27_Witness ==
    \E t \in Threads :
        /\ Returning(t) /\ loc[t].is_abort
        /\ \E e \in 1..Len(txn[t]) :
              /\ rw_entry_is_write(txn[t][e])
              /\ tscache[txn[t][e].key.id].present
              /\ Word(txn[t][e].key.id).lock_bit = 0

\* ---- size of the RW set
\* RW_SET_SIZE_LIMIT, the capacity of a transaction's entry array and of
\* commit's read_set and write_set (lines 390-391), scaled down so that a
\* transaction of MaxOps calls can reach it.
RW_SET_SIZE_LIMIT == 2

\* C28: bounded RW set.  A transaction whose calls were on distinct keys, one
\* entry per key, never holds more than RW_SET_SIZE_LIMIT entries.
C28_BoundedRWSet ==
    \A t \in Threads : OneEntryPerKey(t) => Len(txn[t]) <= RW_SET_SIZE_LIMIT

====
